---------------------------- MODULE Spec2Model ----------------------------
(***************************************************************************)
(* WCDB migration core: MigrateHandle (the stepper with its duration       *)
(* sampler) and Global (the engine-wide notification hub).                 *)
(*                                                                         *)
(* Every public method of MigrateHandle is one action.  The database       *)
(* engine underneath (attach, detach, prepare, step, commit) is modelled   *)
(* by what it does to the attached database and to the tables; any engine  *)
(* call may fail, and the call that fails is an input of the action.       *)
(* Durations are counted in clock ticks of MigrateMaxInitializeDuration.   *)
(***************************************************************************)
EXTENDS Integers, Sequences, FiniteSets, TLC

\* ------------------------------------------------------------- bounds
\* rows a source table starts with, at most
MaxRows == 2
\* ticks that pass during one iteration of the loop, at most
MaxTick == 2
\* capacity of the sample ring (MigrateHandle::numberOfSamples), scaled down
numberOfSamples == 2
\* ticks a duration handed to addSample lasts, at most
MaxSample == 2
\* threads that register observers and dispatch events
MaxThreads == 2

\* ---------------------------------------------------------- constants
\* CoreConst.h, in ticks: 0.01 s and 0.005 s
MigrateMaxExpectingDuration == 2
MigrateMaxInitializeDuration == 1

Main == "main"
NoPath == "none"
nullptr == "nullptr"
Unprepared == "unprepared"

Paths == {"p1", "p2"}
Schemas == {"s1", "s2"}
Infos == {"A", "B"}

\* MigrationInfo accessors: the descriptor of each interned info
getTable(info) == IF info = "A" THEN "tA" ELSE "tB"
getSourceDatabase(info) == IF info = "A" THEN "p1" ELSE "p2"
getSchemaForSourceDatabase(info) == IF info = "A" THEN "s1" ELSE "s2"
getSourceTable(info) == IF info = "A" THEN "srcA" ELSE "srcB"

Tables == {getTable(i) : i \in Infos}
\* the one table each source database file holds
SourceTableAt(path) == IF path = "p1" THEN "srcA" ELSE "srcB"

\* the notification hub: observer names in the order std::map keeps them,
\* callbacks, and the codes of log events
NameOrder == <<"a", "b">>
Names == {NameOrder[i] : i \in DOMAIN NameOrder}
Callbacks == {"f", "g"}
Codes == {"SQLITE_ERROR", "SQLITE_BUSY"}
Threads == 1..MaxThreads
\* the subscriber maps of Global, all three behind m_lock
Maps == {"m_logNotifications", "m_fileOpenedNotifications", "m_lockEventNotifications"}
\* the guards on m_lock
LockGuard == "exclusive"
SharedLockGuard == "shared"

\* handle:   the members of the MigrateHandle
\* db:       the database behind it: what is attached, the tables and rows
\* last:     the latest call: its arguments, its result and the statements it ran
\* answered: the infos migrateRows has returned done for
\* hub:      Global's log notifications, and the calls of the latest log event
VARIABLES handle, db, last, answered, hub

vars == <<handle, db, last, answered, hub>>

\* ------------------------------------------------------------ helpers
Max(S) == CHOOSE x \in S : \A y \in S : y <= x

RECURSIVE SumTo(_, _)
SumTo(f, n) == IF n = 0 THEN 0 ELSE f[n] + SumTo(f, n - 1)

\* the failure injected into one call: the engine call that fails, and for a
\* step the iteration of the loop it fails in
NoFail == [at |-> "none", n |-> 0]
PlainFails == {[at |-> a, n |-> 0] :
                 a \in {"tableExists", "detach", "attach", "prepareMigrate",
                        "prepareDelete", "begin", "commit", "execute"}}
StepFails == {[at |-> a, n |-> i] :
                a \in {"stepMigrate", "stepDelete"}, i \in 1..(MaxRows + 1)}
Fails == {NoFail} \cup PlainFails \cup StepFails

\* the clock readings of one call: the ticks that pass during each iteration of
\* the loop (the same for every iteration of one call), and between the end of
\* the body and the reading after commit (none, or one)
Clocks == [rate : 0..MaxTick, commit : 0..1]
\* a clock that advances one tick from each reading to the next
SteadyClock == [rate |-> 1, commit |-> 1]

\* a call reads the clock in the loop, and after the transaction when it
\* succeeded: a call that fails before its transaction begins reads no clock,
\* one whose transaction fails does not read it after the transaction
InputsOver(clocks) ==
    [fail : {NoFail}, clock : clocks]
    \cup [fail : {f \in Fails : f.at \in {"commit", "stepMigrate", "stepDelete"}},
          clock : {c \in clocks : c.commit = SteadyClock.commit}]
    \cup [fail : {f \in Fails : f.at \in {"tableExists", "detach", "attach",
                                          "prepareMigrate", "prepareDelete", "begin"}},
          clock : {SteadyClock}]

\* one engine event of the running call
Event(w, e, ok, changes) ==
    [w EXCEPT !.log = Append(@, [e |-> e, ok |-> ok, changes |-> changes,
                                prepared |-> {w.h.m_migrateStatement,
                                              w.h.m_removeMigratedStatement}
                                               # {Unprepared},
                                open |-> w.d.inTransaction])]

\* ------------------------------------------------------- attach/detach
\* sequencing: the result r of one call, handed to what follows it
Then(first, Rest(_)) == CHOOSE y \in {Rest(r) : r \in {first}} : TRUE

isMain(schema) == schema = Main

\* Syntax::Schema::isTargetingSameSchema: it is handed the two schemas only
isTargetingSameSchema(a, b) == a = b

attach(w, newPath, newSchema, in) ==
    IF ~isMain(newSchema)
    THEN LET succeed == in.fail.at # "attach"
             w1 == Event(w, "attach", succeed, 0)
         IN  [w |-> IF succeed
                    THEN [w1 EXCEPT !.h.m_attached = newSchema,
                                    !.d.attachedPath = newPath]
                    ELSE w1,
              ok |-> succeed]
    ELSE [w |-> w, ok |-> TRUE]

detach(w, in) ==
    IF ~isMain(w.h.m_attached)
    THEN LET succeed == in.fail.at # "detach"
             w1 == Event(w, "detach", succeed, 0)
         IN  [w |-> IF succeed
                    THEN [w1 EXCEPT !.h.m_attached = Main,
                                    !.d.attachedPath = NoPath]
                    ELSE w1,
              ok |-> succeed]
    ELSE [w |-> w, ok |-> TRUE]

finalizeMigrationStatement(w) ==
    [w EXCEPT !.h.m_migrateStatement = Unprepared,
              !.h.m_removeMigratedStatement = Unprepared]

\* a reAttach that does not compare the schemas
reAttachAlways(w, newPath, newSchema, in) ==
    Then(Then(detach(w, in), LAMBDA d :
              IF d.ok THEN attach(d.w, newPath, newSchema, in) ELSE d),
         LAMBDA r :
           [w |-> finalizeMigrationStatement([r.w EXCEPT !.h.m_migratingInfo = nullptr]),
            ok |-> r.ok])

\* a reAttach that returns as soon as its detach or attach has failed
reAttachReturningEarly(w, newPath, newSchema, in) ==
    Then(IF ~isTargetingSameSchema(w.h.m_attached, newSchema)
         THEN Then(detach(w, in), LAMBDA d :
                   IF d.ok THEN attach(d.w, newPath, newSchema, in) ELSE d)
         ELSE [w |-> w, ok |-> TRUE],
         LAMBDA r :
           IF r.ok
           THEN [w |-> finalizeMigrationStatement(
                         [r.w EXCEPT !.h.m_migratingInfo = nullptr]),
                 ok |-> TRUE]
           ELSE r)

\* a reAttach that leaves the statements as they are
reAttachKeeping(w, newPath, newSchema, in) ==
    Then(IF ~isTargetingSameSchema(w.h.m_attached, newSchema)
         THEN Then(detach(w, in), LAMBDA d :
                   IF d.ok THEN attach(d.w, newPath, newSchema, in) ELSE d)
         ELSE [w |-> w, ok |-> TRUE],
         LAMBDA r : [w |-> [r.w EXCEPT !.h.m_migratingInfo = nullptr], ok |-> r.ok])

reAttach(w, newPath, newSchema, in) ==
    Then(IF ~isTargetingSameSchema(w.h.m_attached, newSchema)
         THEN Then(detach(w, in), LAMBDA d :
                   IF d.ok THEN attach(d.w, newPath, newSchema, in) ELSE d)
         ELSE [w |-> w, ok |-> TRUE],
         LAMBDA r :
           [w |-> finalizeMigrationStatement([r.w EXCEPT !.h.m_migratingInfo = nullptr]),
            ok |-> r.ok])

\* ------------------------------------------------------------ engine
\* the database file a schema-qualified name resolves to on this connection
Resolve(w, schema) ==
    IF ~isMain(schema) /\ schema = w.h.m_attached THEN w.d.attachedPath ELSE NoPath

\* whether schema.table names a table of the attached database
HasSourceTable(w, schema, table) ==
    LET p == Resolve(w, schema)
    IN  p \in Paths /\ SourceTableAt(p) = table /\ w.d.sourceExists[p]

HasSourceOf(w, info) ==
    HasSourceTable(w, getSchemaForSourceDatabase(info), getSourceTable(info))

\* Handle::tableExists: <<succeed, exists>>
tableExists(w, schema, table, in) ==
    LET succeed == in.fail.at # "tableExists"
    IN  [w |-> Event(w, "tableExists", succeed, 0),
         ok |-> succeed,
         exists |-> succeed /\ (IF isMain(schema)
                                THEN table \in Tables /\ w.d.destExists[table]
                                ELSE HasSourceTable(w, schema, table))]

\* HandleStatement::prepare of the statement that moves one row of info: the
\* engine compiles it against the tables it names
prepareMigrate(w, info, in) ==
    LET succeed == in.fail.at # "prepareMigrate" /\ HasSourceOf(w, info)
        w1 == Event(w, "prepareMigrate", succeed, 0)
    IN  [w |-> IF succeed THEN [w1 EXCEPT !.h.m_migrateStatement = info] ELSE w1,
         ok |-> succeed]

prepareDelete(w, info, in) ==
    LET succeed == in.fail.at # "prepareDelete" /\ HasSourceOf(w, info)
        w1 == Event(w, "prepareDelete", succeed, 0)
    IN  [w |-> IF succeed THEN [w1 EXCEPT !.h.m_removeMigratedStatement = info] ELSE w1,
         ok |-> succeed]

\* step of the statement getStatementForMigratingOneRow: copies the row of
\* highest rowid from the source table to the destination; changes() is the
\* number of rows it inserted
stepMigrate(w, i, in) ==
    LET info == w.h.m_migrateStatement
        succeed == in.fail # [at |-> "stepMigrate", n |-> i] /\ HasSourceOf(w, info)
        rows == IF succeed
                THEN w.d.sourceRows[Resolve(w, getSchemaForSourceDatabase(info))]
                ELSE {}
        changes == IF rows = {} THEN 0 ELSE 1
        w1 == Event(w, "stepMigrate", succeed, changes)
    IN  [w |-> IF changes = 0 THEN w1
               ELSE [w1 EXCEPT !.d.destRows[getTable(info)] = @ \cup {Max(rows)}],
         ok |-> succeed,
         changes |-> changes]

\* step of the statement getStatementForDeletingMigratedOneRow: deletes from the
\* source table the row of highest rowid, the one just copied
stepDelete(w, i, in) ==
    LET info == w.h.m_removeMigratedStatement
        p == Resolve(w, getSchemaForSourceDatabase(info))
        succeed == in.fail # [at |-> "stepDelete", n |-> i] /\ HasSourceOf(w, info)
        rows == IF succeed THEN w.d.sourceRows[p] ELSE {}
        w1 == Event(w, "stepDelete", succeed, IF rows = {} THEN 0 ELSE 1)
    IN  [w |-> IF rows = {} THEN w1
               ELSE [w1 EXCEPT !.d.sourceRows[p] = @ \ {Max(rows)}],
         ok |-> succeed]

\* execute of getStatementForDroppingSourceTable: DROP TABLE IF EXISTS
executeDrop(w, info, in) ==
    LET succeed == in.fail.at # "execute"
        p == Resolve(w, getSchemaForSourceDatabase(info))
        w1 == Event(w, "drop", succeed, 0)
    IN  [w |-> IF succeed /\ HasSourceOf(w, info)
               THEN [w1 EXCEPT !.d.sourceExists[p] = FALSE, !.d.sourceRows[p] = {}]
               ELSE w1,
         ok |-> succeed]

\* ----------------------------------------------------------- sampler
addSample(w, timeIntervalWithinTransaction, timeIntervalForWholeTransaction) ==
    LET at == w.h.m_samplePointing
        next == at + 1
    IN  [w EXCEPT !.h.m_samples[at + 1] =
                      [within |-> timeIntervalWithinTransaction,
                       whole |-> timeIntervalForWholeTransaction],
                  !.h.m_samplePointing = IF next >= numberOfSamples THEN 0 ELSE next]

\* a budget that is not compared with MigrateMaxExpectingDuration
calculateTimeIntervalUnclamped(w) ==
    LET valid(i) == w.h.m_samples[i].within > 0 /\ w.h.m_samples[i].whole > 0
        within == [i \in 1..numberOfSamples |->
                     IF valid(i) THEN w.h.m_samples[i].within ELSE 0]
        whole == [i \in 1..numberOfSamples |->
                    IF valid(i) THEN w.h.m_samples[i].whole ELSE 0]
        totalWithin == SumTo(within, numberOfSamples)
        totalWhole == SumTo(whole, numberOfSamples)
    IN  IF totalWhole = 0 \/ MigrateMaxExpectingDuration * totalWithin <= 0
        THEN [num |-> MigrateMaxInitializeDuration, den |-> 1]
        ELSE [num |-> MigrateMaxExpectingDuration * totalWithin, den |-> totalWhole]

\* the budget as the fraction num/den of a tick: the division of two sums, or
\* MigrateMaxInitializeDuration when the quotient is above the maximum, not
\* positive, or 0/0
calculateTimeIntervalWithinTransaction(w) ==
    LET valid(i) == w.h.m_samples[i].within > 0 /\ w.h.m_samples[i].whole > 0
        within == [i \in 1..numberOfSamples |->
                     IF valid(i) THEN w.h.m_samples[i].within ELSE 0]
        whole == [i \in 1..numberOfSamples |->
                    IF valid(i) THEN w.h.m_samples[i].whole ELSE 0]
        totalWithin == SumTo(within, numberOfSamples)
        totalWhole == SumTo(whole, numberOfSamples)
    IN  IF \/ totalWhole = 0
           \/ MigrateMaxExpectingDuration * totalWithin
                > MigrateMaxExpectingDuration * totalWhole
           \/ MigrateMaxExpectingDuration * totalWithin <= 0
        THEN [num |-> MigrateMaxInitializeDuration, den |-> 1]
        ELSE [num |-> MigrateMaxExpectingDuration * totalWithin, den |-> totalWhole]

\* cost < budget
Within(cost, budget) == cost * budget.den < budget.num

\* ----------------------------------------------------------- stepper
\* a stepper that takes a step of no changes for one more row
migrateRowNeverDrained(w, i, in) ==
    Then(stepMigrate(w, i, in), LAMBDA m :
      IF m.ok
      THEN IF m.changes # 0
           THEN Then(stepDelete(m.w, i, in), LAMBDA r :
                  [w |-> r.w, succeed |-> r.ok, migrated |-> FALSE])
           ELSE [w |-> m.w, succeed |-> TRUE, migrated |-> FALSE]
      ELSE [w |-> m.w, succeed |-> FALSE, migrated |-> FALSE])

\* a stepper that steps the delete statement after every migrate step that
\* succeeded
migrateRowAlwaysDeleting(w, i, in) ==
    Then(stepMigrate(w, i, in), LAMBDA m :
      IF m.ok
      THEN Then(stepDelete(m.w, i, in), LAMBDA r :
             [w |-> r.w, succeed |-> r.ok, migrated |-> r.ok /\ m.changes = 0])
      ELSE [w |-> m.w, succeed |-> FALSE, migrated |-> FALSE])

\* a stepper that copies a row and leaves it in the source
migrateRowKeeping(w, i, in) ==
    Then(stepMigrate(w, i, in), LAMBDA m :
      [w |-> m.w, succeed |-> m.ok, migrated |-> m.ok /\ m.changes = 0])

\* a stepper that reports a row as moved whether or not its delete step
\* succeeded
migrateRowIgnoringDelete(w, i, in) ==
    Then(stepMigrate(w, i, in), LAMBDA m :
      IF m.ok
      THEN IF m.changes # 0
           THEN Then(stepDelete(m.w, i, in), LAMBDA r :
                  [w |-> r.w, succeed |-> TRUE, migrated |-> FALSE])
           ELSE [w |-> m.w, succeed |-> TRUE, migrated |-> TRUE]
      ELSE [w |-> m.w, succeed |-> FALSE, migrated |-> FALSE])

\* the i-th migrateRow() of a call: <<succeed, migrated>>
migrateRow(w, i, in) ==
    Then(stepMigrate(w, i, in), LAMBDA m :
      IF m.ok
      THEN IF m.changes # 0
           THEN Then(stepDelete(m.w, i, in), LAMBDA r :
                  [w |-> r.w, succeed |-> r.ok, migrated |-> FALSE])
           ELSE [w |-> m.w, succeed |-> TRUE, migrated |-> TRUE]
      ELSE [w |-> m.w, succeed |-> FALSE, migrated |-> FALSE])

\* the body of the transaction, from its i-th iteration on
RECURSIVE migrateLoop(_, _, _, _)
migrateLoop(w, i, budget, in) ==
    Then(migrateRow(w, i, in), LAMBDA r :
      LET cost == in.clock.rate * i
      \* a source of at most MaxRows rows is drained by iteration MaxRows + 1
      IN  IF r.succeed /\ ~r.migrated /\ Within(cost, budget) /\ i <= MaxRows
          THEN migrateLoop(r.w, i + 1, budget, in)
          ELSE [w |-> r.w, ok |-> r.succeed, migrated |-> r.migrated, cost |-> cost])

\* migrateRows from the reattach: make info the migrating info
switchInfo(w, info, in) ==
    IF w.h.m_migratingInfo # info
    THEN Then(reAttach(w, getSourceDatabase(info), getSchemaForSourceDatabase(info), in),
              LAMBDA r :
                IF r.ok THEN [w |-> [r.w EXCEPT !.h.m_migratingInfo = info], ok |-> TRUE]
                ELSE r)
    ELSE [w |-> w, ok |-> TRUE]

\* migrateRows: prepare each statement that is not prepared
prepareStatements(w, in) ==
    Then(IF w.h.m_migrateStatement = Unprepared
         THEN prepareMigrate(w, w.h.m_migratingInfo, in)
         ELSE [w |-> w, ok |-> TRUE],
         LAMBDA p :
           IF ~p.ok THEN p
           ELSE IF p.w.h.m_removeMigratedStatement = Unprepared
                THEN prepareDelete(p.w, p.w.h.m_migratingInfo, in)
                ELSE p)

\* Handle::runTransaction around the loop: BEGIN, the body, COMMIT when the body
\* returns true and the commit succeeds, ROLLBACK otherwise
runTransaction(w, budget, in) ==
    IF in.fail.at = "begin"
    THEN [w |-> Event(w, "begin", FALSE, 0), ok |-> FALSE, body |-> [ok |-> FALSE]]
    ELSE Then(migrateLoop([Event(w, "begin", TRUE, 0) EXCEPT !.d.inTransaction = TRUE],
                          1, budget, in),
              LAMBDA b :
                LET committed == b.ok /\ in.fail.at # "commit"
                    w2 == IF b.ok THEN Event(b.w, "commit", committed, 0) ELSE b.w
                    w3 == IF committed THEN w2
                          ELSE [Event(w2, "rollback", TRUE, 0)
                                   EXCEPT !.d.sourceRows = w.d.sourceRows,
                                          !.d.destRows = w.d.destRows]
                IN  [w |-> [w3 EXCEPT !.d.inTransaction = FALSE],
                     ok |-> committed, body |-> b])

\* a loop that runs after BEGIN with nothing to end the transaction
runMigrationUnguarded(w, in) ==
    Then(calculateTimeIntervalWithinTransaction(w), LAMBDA budget :
      IF in.fail.at = "begin"
      THEN [w |-> Event(w, "begin", FALSE, 0), ok |-> FALSE, body |-> [ok |-> FALSE]]
      ELSE Then(migrateLoop([Event(w, "begin", TRUE, 0) EXCEPT !.d.inTransaction = TRUE],
                            1, budget, in),
                LAMBDA b : [w |-> b.w, ok |-> b.ok, body |-> b]))

\* migrateRows: the budget and the transaction; cost is what the body leaves in
\* timeIntervalWithinTransaction
runMigration(w, in) ==
    Then(calculateTimeIntervalWithinTransaction(w), LAMBDA budget :
      runTransaction(w, budget, in))

\* a failed call that finalizes its statements
recordMigrationFinalizing(tx, in) ==
    IF tx.ok
    THEN [w |-> addSample(tx.w, tx.body.cost, tx.body.cost + in.clock.commit),
          ok |-> TRUE, done |-> tx.body.migrated]
    ELSE [w |-> finalizeMigrationStatement(tx.w), ok |-> FALSE, done |-> FALSE]

\* a call that adds no sample when it found the source drained
recordMigrationSkipping(tx, in) ==
    IF tx.ok
    THEN [w |-> IF tx.body.migrated THEN tx.w
                ELSE addSample(tx.w, tx.body.cost, tx.body.cost + in.clock.commit),
          ok |-> TRUE, done |-> tx.body.migrated]
    ELSE [w |-> tx.w, ok |-> FALSE, done |-> FALSE]

\* migrateRows after the transaction: the sample and done
recordMigration(tx, in) ==
    IF tx.ok
    THEN [w |-> addSample(tx.w, tx.body.cost, tx.body.cost + in.clock.commit),
          ok |-> TRUE, done |-> tx.body.migrated]
    ELSE [w |-> tx.w, ok |-> FALSE, done |-> FALSE]

\* migrateRows once the destination table is known to exist
migrateExisting(w, info, in) ==
    Then(switchInfo(w, info, in), LAMBDA a :
      IF ~a.ok THEN [w |-> a.w, ok |-> FALSE, done |-> FALSE]
      ELSE Then(prepareStatements(a.w, in), LAMBDA p :
             IF ~p.ok THEN [w |-> p.w, ok |-> FALSE, done |-> FALSE]
             ELSE Then(runMigration(p.w, in), LAMBDA tx : recordMigration(tx, in))))

\* a migrateRows that does not look for the destination table
migrateRowsUnchecked(w, info, in) == migrateExisting(w, info, in)

migrateRows(w, info, in) ==
    Then(tableExists(w, Main, getTable(info), in), LAMBDA t :
      IF ~t.ok THEN [w |-> t.w, ok |-> FALSE, done |-> FALSE]
      ELSE IF ~t.exists THEN [w |-> t.w, ok |-> TRUE, done |-> TRUE]
      ELSE migrateExisting(t.w, info, in))

\* a dropSourceTable that sets m_migratingInfo once the statement has succeeded
dropSourceTableThenSet(w, info, in) ==
    Then(reAttach(w, getSourceDatabase(info), getSchemaForSourceDatabase(info), in),
         LAMBDA r :
           IF r.ok
           THEN Then(executeDrop(r.w, info, in), LAMBDA e :
                  IF e.ok THEN [w |-> [e.w EXCEPT !.h.m_migratingInfo = info], ok |-> TRUE]
                  ELSE e)
           ELSE [w |-> r.w, ok |-> FALSE])

dropSourceTable(w, info, in) ==
    Then(reAttach(w, getSourceDatabase(info), getSchemaForSourceDatabase(info), in),
         LAMBDA r :
           IF r.ok
           THEN executeDrop([r.w EXCEPT !.h.m_migratingInfo = info], info, in)
           ELSE [w |-> r.w, ok |-> FALSE])

\* a MigrationUserInfo names the same source as the info interned from it
sourceTableExists(w, userInfo, in) ==
    Then(reAttach(w, getSourceDatabase(userInfo),
                  getSchemaForSourceDatabase(userInfo), in),
         LAMBDA r :
           IF ~r.ok THEN [w |-> r.w, ok |-> FALSE, exists |-> FALSE]
           ELSE tableExists(r.w, getSchemaForSourceDatabase(userInfo),
                            getSourceTable(userInfo), in))

\* ------------------------------------------------------- state machine
\* the handle and its database as one call finds them
World == [h |-> handle, d |-> db, log |-> <<>>]

\* the inputs that matter to a call that runs no transaction
SpecInputs == InputsOver({SteadyClock})
AttachInputs == [fail : {f \in Fails : f.at \in {"none", "detach", "attach"}},
                 clock : {SteadyClock}]
QueryInputs == [fail : {f \in Fails : f.at \in {"none", "detach", "attach",
                                                "tableExists", "execute"}},
                clock : {SteadyClock}]

Called(op, info, path, schema, ok, done, exists, log) ==
    [op |-> op, info |-> info, path |-> path, schema |-> schema,
     ok |-> ok, done |-> done, exists |-> exists, log |-> log]

InitHandle ==
    [m_attached |-> Main,
     m_migratingInfo |-> nullptr,
     m_migrateStatement |-> Unprepared,
     m_removeMigratedStatement |-> Unprepared,
     m_samples |-> [i \in 1..numberOfSamples |-> [within |-> 0, whole |-> 0]],
     m_samplePointing |-> 0]

InitDb(n, destExists) ==
    [attachedPath |-> NoPath,
     sourceRows |-> [p \in Paths |-> 1..n[p]],
     sourceExists |-> [p \in Paths |-> TRUE],
     destRows |-> [t \in Tables |-> {}],
     destExists |-> destExists,
     inTransaction |-> FALSE]

InitHub ==
    [m_logNotifications |-> [n \in {} |-> nullptr],
     m_fileOpenedNotifications |-> [n \in {} |-> nullptr],
     m_lockEventNotifications |-> [n \in {} |-> nullptr],
     m_lock |-> [exclusive |-> {}, shared |-> {}],
     thread |-> [t \in Threads |-> [pc |-> "idle"]],
     calls |-> <<>>,
     posted |-> FALSE,
     status |-> [n \in Names |-> "never"],
     latest |-> [n \in Names |-> nullptr]]

Init ==
    /\ handle = InitHandle
    /\ \E n \in 0..MaxRows, e \in BOOLEAN :
          db = InitDb([p \in Paths |-> IF p = "p1" THEN n ELSE 0],
                      [t \in Tables |-> IF t = "tA" THEN e ELSE TRUE])
    /\ last = Called("none", nullptr, NoPath, Main, TRUE, FALSE, FALSE, <<>>)
    /\ answered = {}
    /\ hub = InitHub

MigrateRows(info, in) ==
    \E r \in {migrateRows(World, info, in)} :
        /\ handle' = r.w.h
        /\ db' = r.w.d
        /\ last' = Called("migrateRows", info, getSourceDatabase(info),
                          getSchemaForSourceDatabase(info), r.ok, r.done, FALSE, r.w.log)
        /\ answered' = IF r.done THEN answered \cup {info} ELSE answered
        /\ UNCHANGED hub

DropSourceTable(info, in) ==
    \E r \in {dropSourceTable(World, info, in)} :
        /\ handle' = r.w.h
        /\ db' = r.w.d
        /\ last' = Called("dropSourceTable", info, getSourceDatabase(info),
                          getSchemaForSourceDatabase(info), r.ok, FALSE, FALSE, r.w.log)
        /\ UNCHANGED <<answered, hub>>

SourceTableExists(userInfo, in) ==
    \E r \in {sourceTableExists(World, userInfo, in)} :
        /\ handle' = r.w.h
        /\ db' = r.w.d
        /\ last' = Called("sourceTableExists", userInfo, getSourceDatabase(userInfo),
                          getSchemaForSourceDatabase(userInfo), r.ok, FALSE, r.exists,
                          r.w.log)
        /\ UNCHANGED <<answered, hub>>

ReAttach(newPath, newSchema, in) ==
    \E r \in {reAttach(World, newPath, newSchema, in)} :
        /\ handle' = r.w.h
        /\ db' = r.w.d
        /\ last' = Called("reAttach", nullptr, newPath, newSchema, r.ok, FALSE, FALSE,
                          r.w.log)
        /\ UNCHANGED <<answered, hub>>

Next ==
    \/ \E info \in Infos, in \in SpecInputs : MigrateRows(info, in)
    \/ \E info \in Infos, in \in QueryInputs : DropSourceTable(info, in)
    \/ \E info \in Infos, in \in QueryInputs : SourceTableExists(info, in)
    \/ \E p \in Paths, s \in Schemas \cup {Main}, in \in AttachInputs : ReAttach(p, s, in)

Spec == Init /\ [][Next]_vars

\* the sampler under every clock: calls of migrateRows on one info, with every
\* reading of the clock and every engine failure
ClockInputs == InputsOver(Clocks)

NextClock == \E in \in ClockInputs : MigrateRows("A", in)

SpecClock == Init /\ [][NextClock]_vars

\* a driver that calls migrateRows(info) again and again, on an engine that
\* does not fail
Driven == "A"

Migrate == \E clock \in Clocks : MigrateRows(Driven, [fail |-> NoFail, clock |-> clock])

SpecLive == Init /\ [][Migrate]_vars /\ WF_vars(Migrate)

\* ------------------------------------------------------ sampler alone
\* the sampler under every ring: addSample with every pair of durations, and
\* the budget calculated from the ring
Durations == 0..MaxSample

AddSample(within, whole) ==
    /\ handle' = addSample(World, within, whole).h
    /\ last' = [op |-> "addSample"]
    /\ UNCHANGED <<db, answered, hub>>

CalculateTimeIntervalWithinTransaction ==
    /\ last' = [op |-> "calculateTimeIntervalWithinTransaction",
                budget |-> calculateTimeIntervalWithinTransaction(World)]
    /\ UNCHANGED <<handle, db, answered, hub>>

NextSampler ==
    \/ \E within \in Durations, whole \in Durations : AddSample(within, whole)
    \/ CalculateTimeIntervalWithinTransaction

SpecSampler == Init /\ [][NextSampler]_vars

\* -------------------------------------------------------------- Global
\* a registration that keeps the callback a name already has
setNotificationForLogEmplace(m, name, notification) ==
    IF notification # nullptr
    THEN [n \in DOMAIN m \cup {name} |-> IF n \in DOMAIN m THEN m[n] ELSE notification]
    ELSE [n \in DOMAIN m \ {name} |-> m[n]]

\* m_logNotifications[name] = notification, or erase(name)
setNotificationForLog(m, name, notification) ==
    IF notification # nullptr
    THEN [n \in DOMAIN m \cup {name} |-> IF n = name THEN notification ELSE m[n]]
    ELSE [n \in DOMAIN m \ {name} |-> m[n]]

\* the calls postLogNotification makes, from the i-th name of the map on
RECURSIVE postLogNotification(_, _, _)
postLogNotification(m, rc, i) ==
    IF i > Len(NameOrder) THEN <<>>
    ELSE LET name == NameOrder[i]
         IN  (IF name \in DOMAIN m
              THEN <<[name |-> name, callback |-> m[name], rc |-> rc]>>
              ELSE <<>>) \o postLogNotification(m, rc, i + 1)

\* what has become of a name: registered once, registered again, unregistered
NextStatus(status, notification) ==
    IF notification = nullptr
    THEN (IF status = "never" THEN "never" ELSE "removed")
    ELSE (IF status \in {"set", "replaced"} THEN "replaced" ELSE "set")

SetNotificationForLog(name, notification) ==
    /\ hub' = [hub EXCEPT
                 !.m_logNotifications = setNotificationForLog(@, name, notification),
                 !.posted = FALSE,
                 !.status[name] = NextStatus(@, notification),
                 !.latest[name] = notification]
    /\ UNCHANGED <<handle, db, last, answered>>

PostLogNotification(rc) ==
    /\ hub' = [hub EXCEPT !.calls = postLogNotification(hub.m_logNotifications, rc, 1),
                          !.posted = TRUE]
    /\ UNCHANGED <<handle, db, last, answered>>

NextHub ==
    \/ \E name \in Names, cb \in Callbacks \cup {nullptr} : SetNotificationForLog(name, cb)
    \/ \E rc \in Codes : PostLogNotification(rc)

SpecHub == Init /\ [][NextHub]_vars

\* ------------------------------------------------------ Global, threads
\* each thread registers an observer in one of the maps, or dispatches one
\* of their events: it takes m_lock with the guard of the method, stores or
\* walks the map, and leaves the guard's scope

\* a register that takes the lock the dispatches take
GuardOfSetShared == SharedLockGuard

\* the guard every setNotification... constructs, and every post...
GuardOfSet == LockGuard
GuardOfPost == SharedLockGuard

\* SharedLock: exclusive with no other holder, shared with no exclusive holder
CanLock(lock, guard) ==
    IF guard = LockGuard
    THEN lock.exclusive = {} /\ lock.shared = {}
    ELSE lock.exclusive = {}

Locked(lock, t, guard) ==
    IF guard = LockGuard
    THEN [lock EXCEPT !.exclusive = @ \cup {t}]
    ELSE [lock EXCEPT !.shared = @ \cup {t}]

Unlocked(lock, t) == [exclusive |-> lock.exclusive \ {t}, shared |-> lock.shared \ {t}]

\* m_fileOpenedNotifications[name] = notification, or erase(name)
setNotificationWhenFileOpened(m, name, notification) ==
    IF notification # nullptr
    THEN [n \in DOMAIN m \cup {name} |-> IF n = name THEN notification ELSE m[n]]
    ELSE [n \in DOMAIN m \ {name} |-> m[n]]

\* m_lockEventNotifications[name] = event: the event is stored whatever its
\* callbacks are (willLock stands for the four of them)
setNotificationForLockEvent(m, name, willLock) ==
    [n \in DOMAIN m \cup {name} |-> IF n = name THEN willLock ELSE m[n]]

Stored(map, m, name, notification) ==
    CASE map = "m_logNotifications" -> setNotificationForLog(m, name, notification)
      [] map = "m_fileOpenedNotifications"
           -> setNotificationWhenFileOpened(m, name, notification)
      [] map = "m_lockEventNotifications"
           -> setNotificationForLockEvent(m, name, notification)

\* whether the walk of a post... calls the entry of name: the lock events call
\* a callback that is not null
Invokes(map, m, name) ==
    /\ name \in DOMAIN m
    /\ map = "m_lockEventNotifications" => m[name] # nullptr

SetLock(t, map, name, notification) ==
    /\ hub.thread[t].pc = "idle"
    /\ CanLock(hub.m_lock, GuardOfSet)
    /\ hub' = [hub EXCEPT
                 !.m_lock = Locked(@, t, GuardOfSet),
                 !.thread[t] = [pc |-> "set", map |-> map, name |-> name,
                                notification |-> notification]]
    /\ UNCHANGED <<handle, db, last, answered>>

SetStore(t) ==
    /\ hub.thread[t].pc = "set"
    /\ LET my == hub.thread[t]
       IN  hub' = [hub EXCEPT
                     ![my.map] = Stored(my.map, @, my.name, my.notification),
                     !.thread[t] = [pc |-> "stored"]]
    /\ UNCHANGED <<handle, db, last, answered>>

PostLock(t, map) ==
    /\ hub.thread[t].pc = "idle"
    /\ CanLock(hub.m_lock, GuardOfPost)
    /\ hub' = [hub EXCEPT
                 !.m_lock = Locked(@, t, GuardOfPost),
                 !.thread[t] = [pc |-> "post", map |-> map, acquired |-> hub[map],
                                at |-> 1, calls |-> <<>>]]
    /\ UNCHANGED <<handle, db, last, answered>>

\* one step of the for over the map
PostNext(t) ==
    /\ hub.thread[t].pc = "post"
    /\ hub.thread[t].at <= Len(NameOrder)
    /\ LET my == hub.thread[t]
           name == NameOrder[my.at]
       IN  hub' = [hub EXCEPT
                     !.thread[t].at = @ + 1,
                     !.thread[t].calls =
                        IF Invokes(my.map, hub[my.map], name)
                        THEN Append(@, [name |-> name, callback |-> hub[my.map][name]])
                        ELSE @]
    /\ UNCHANGED <<handle, db, last, answered>>

Walked(t) == hub.thread[t].pc = "post" /\ hub.thread[t].at > Len(NameOrder)

\* the end of the guard's scope
Unlock(t) ==
    /\ hub.thread[t].pc = "stored" \/ Walked(t)
    /\ hub' = [hub EXCEPT !.m_lock = Unlocked(@, t), !.thread[t] = [pc |-> "idle"]]
    /\ UNCHANGED <<handle, db, last, answered>>

NextThreads ==
    \E t \in Threads :
      \/ \E map \in Maps, name \in Names, cb \in Callbacks \cup {nullptr} :
           SetLock(t, map, name, cb)
      \/ SetStore(t)
      \/ \E map \in Maps : PostLock(t, map)
      \/ PostNext(t)
      \/ Unlock(t)

InitThreads ==
    Init /\ db = InitDb([p \in Paths |-> 0], [t \in Tables |-> TRUE])

SpecThreads == InitThreads /\ [][NextThreads]_vars

\* ---------------------------------------------------------------- claims
\* what a call's log shows: whether one of the statements es ran, whether one
\* of them failed
Ran(log, es) == \E k \in DOMAIN log : log[k].e \in es
Failed(log, es) == \E k \in DOMAIN log : log[k].e \in es /\ ~log[k].ok
NoFailure(log) == \A k \in DOMAIN log : log[k].ok
Steps == {"stepMigrate", "stepDelete"}
Rows(d, info) == Cardinality(d.sourceRows[getSourceDatabase(info)])

MigrateReturned(info) == last.op = "migrateRows" /\ last.info = info

\* C1: a driver that keeps calling migrateRows(info), on an engine that does
\* not fail and a source no one else writes, is eventually answered done.
C1_EventuallyDone == <>(MigrateReturned(Driven) /\ last.ok /\ last.done)

\* C1 witness: a call answers done after every row of a full source has moved
C1_DrainedWitness ==
    /\ MigrateReturned("A") /\ last.ok /\ last.done
    /\ db.sourceRows["p1"] = {}
    /\ db.destRows["tA"] = 1..MaxRows


\* C2: a call of migrateRows(info) that returns ok and not done leaves the
\* source table with strictly fewer rows than it had, the rows it lost committed
\* to the destination, whatever the budget was.
C2_Progress ==
    [][(MigrateReturned(Driven)' /\ last'.ok /\ ~last'.done)
         => /\ Rows(db', Driven) < Rows(db, Driven)
            /\ db.sourceRows["p1"] \ db'.sourceRows["p1"]
                 = db'.destRows["tA"] \ db.destRows["tA"]
            /\ ~db'.inTransaction]_vars

\* C2 witness: the first call that moves a row has the initial budget,
\* MigrateMaxInitializeDuration, and one step costs it more than that: it
\* moves one row and answers ok and not done
C2_CutOffWitness ==
    /\ MigrateReturned(Driven) /\ last.ok /\ ~last.done
    /\ db.destRows["tA"] = {MaxRows}
    /\ db.sourceRows["p1"] = 1..(MaxRows - 1)
    /\ handle.m_samples[1].within > MigrateMaxInitializeDuration

\* C3: when a step of the migrate or of the delete statement fails inside the
\* transaction, migrateRows(info) returns false with done false, the samples
\* and m_samplePointing are what they were, m_migratingInfo is info and both
\* statements are prepared; the next migrateRows(info) attaches, detaches and
\* prepares nothing.
C3_StepFailure ==
    [][/\ (MigrateReturned(Driven)' /\ Failed(last'.log, Steps))
            => /\ ~last'.ok /\ ~last'.done
               /\ handle'.m_samples = handle.m_samples
               /\ handle'.m_samplePointing = handle.m_samplePointing
               /\ handle'.m_migratingInfo = Driven
               /\ handle'.m_migrateStatement = Driven
               /\ handle'.m_removeMigratedStatement = Driven
       /\ (MigrateReturned(Driven) /\ Failed(last.log, Steps) /\ MigrateReturned(Driven)')
            => ~Ran(last'.log, {"attach", "detach", "prepareMigrate", "prepareDelete"})
      ]_vars

\* C3 witness: the delete step fails in a call that found its statements
\* prepared, after an earlier call had a sample recorded
C3_StepFailedWitness ==
    /\ MigrateReturned(Driven) /\ ~last.ok
    /\ Failed(last.log, {"stepDelete"})
    /\ ~Ran(last.log, {"prepareMigrate", "prepareDelete"})
    /\ handle.m_samplePointing = 1
    /\ handle.m_migrateStatement = Driven /\ handle.m_removeMigratedStatement = Driven

\* a call of migrateRows(info) on an empty source table, its destination
\* table in main, that meets no engine failure
DrainedCall ==
    /\ MigrateReturned(Driven)'
    /\ db.sourceRows["p1"] = {}
    /\ db.destExists["tA"]
    /\ NoFailure(last'.log)

\* C4 as stated: on an empty source, migrateRows(info) returns done and ok and
\* records no sample: m_samples and m_samplePointing are what they were.
C4_NoSampleWhenEmpty ==
    [][DrainedCall
         => /\ last'.ok /\ last'.done
            /\ handle'.m_samples = handle.m_samples
            /\ handle'.m_samplePointing = handle.m_samplePointing]_vars

\* C4, amended: on an empty source, migrateRows(info) returns done and ok and
\* records one sample: the slot at m_samplePointing takes the durations of the
\* call, every other slot is what it was, and m_samplePointing advances by one,
\* around the ring.
C4_SampleWhenEmpty ==
    [][DrainedCall
         => /\ last'.ok /\ last'.done
            /\ handle'.m_samplePointing = (handle.m_samplePointing + 1) % numberOfSamples
            /\ \E clock \in Clocks :
                 handle'.m_samples =
                    [handle.m_samples EXCEPT ![handle.m_samplePointing + 1] =
                        [within |-> clock.rate, whole |-> clock.rate + clock.commit]]
      ]_vars

\* C4 witness: the first call, on a source that was empty from the start, has
\* answered done and left a sample in the first slot
C4_EmptySourceWitness ==
    /\ MigrateReturned(Driven) /\ last.ok /\ last.done
    /\ db.destExists["tA"] /\ db.destRows["tA"] = {}
    /\ handle.m_samplePointing = 1
    /\ handle.m_samples[1].whole > 0
    /\ \A i \in 2..numberOfSamples : handle.m_samples[i].whole = 0

\* a call of migrateRows(info) whose destination table is not in main
DestinationMissing(info) == MigrateReturned(info)' /\ ~db.destExists[getTable(info)]

\* what such a call leaves alone: it runs the existence query and nothing else,
\* and neither the handle nor the database changes
Untouched ==
    /\ \A k \in DOMAIN last'.log : last'.log[k].e = "tableExists"
    /\ handle' = handle
    /\ db' = db

\* C5 as stated: when the destination table is not in main, migrateRows(info)
\* returns done and ok, and attaches, detaches, prepares, begins and changes
\* nothing.
C5_MissingIsDone ==
    [][\A info \in Infos :
         DestinationMissing(info) => last'.ok /\ last'.done /\ Untouched]_vars

\* C5, amended: when the destination table is not in main, migrateRows(info)
\* attaches, detaches, prepares, begins and changes nothing; it returns done and
\* ok when the existence query succeeds, and false with done false when the
\* query fails.
C5_MissingIsDoneWhenQueried ==
    [][\A info \in Infos :
         DestinationMissing(info)
           => /\ Untouched
              /\ last'.ok = NoFailure(last'.log)
              /\ last'.done = last'.ok]_vars

\* C5 witness: the call has answered done on a handle and a full source that
\* are as they were created
C5_MissingWitness ==
    /\ MigrateReturned("A") /\ last.ok /\ last.done
    /\ ~db.destExists["tA"]
    /\ db.sourceRows["p1"] = 1..MaxRows
    /\ handle = InitHandle

\* C6: once migrateRows(info) has returned done, dropSourceTable(info) succeeds
\* on an engine that does not fail, and with the source table dropped and the
\* destination in main a further migrateRows(info), its existence query and
\* attach statements answered, returns done and ok.
C6_DoneAfterDrop ==
    [][\A info \in answered :
         /\ (last'.op = "dropSourceTable" /\ last'.info = info /\ NoFailure(last'.log))
              => last'.ok
         /\ (/\ MigrateReturned(info)'
             /\ ~db.sourceExists[getSourceDatabase(info)]
             /\ db.destExists[getTable(info)]
             /\ ~Failed(last'.log, {"tableExists", "detach", "attach"}))
              => last'.ok /\ last'.done]_vars

\* two calls of reAttach in a row with the same path and schema
ReAttachedAgain ==
    /\ last.op = "reAttach" /\ last'.op = "reAttach"
    /\ last'.path = last.path /\ last'.schema = last.schema

Attaching == {"attach", "detach"}

\* C7 as stated: the second of two reAttach(P, S) in a row executes no attach
\* and no detach.
C7_SecondIsIdle ==
    [][ReAttachedAgain => ~Ran(last'.log, Attaching)]_vars

\* C7, amended: when the first of two reAttach(P, S) in a row returned true, the
\* second executes no attach and no detach.
C7_SecondIsIdleAfterSuccess ==
    [][(ReAttachedAgain /\ last.ok) => ~Ran(last'.log, Attaching)]_vars

\* C7 witness: a reAttach to a schema other than main has returned true without
\* a statement, the schema attached
C7_IdleWitness ==
    /\ last.op = "reAttach" /\ last.ok /\ last.log = <<>>
    /\ ~isMain(last.schema)
    /\ handle.m_attached = last.schema /\ db.attachedPath = last.path

\* the attached schema refers to the pair (path, schema)
SamePair(path, schema) ==
    handle.m_attached = schema /\ (isMain(schema) \/ db.attachedPath = path)

\* C8: reAttach(path, schema) executes no attach and no detach exactly when the
\* attached schema refers to the same (path, schema); in every other case it
\* detaches the attached schema, when that is not main, and then, the detach
\* done, attaches (path, schema), when schema is not main.
C8_SkipsExactlyOnSamePair ==
    [][last'.op = "reAttach"
         => IF SamePair(last'.path, last'.schema)
            THEN ~Ran(last'.log, Attaching)
            ELSE /\ Ran(last'.log, {"detach"}) = ~isMain(handle.m_attached)
                 /\ Ran(last'.log, {"attach"})
                      = (~isMain(last'.schema) /\ ~Failed(last'.log, {"detach"}))]_vars

\* C9: migrateRows begins at most one transaction, and returns with none open:
\* a transaction it began is committed when no step failed, and rolled back,
\* the rows of both tables as they were, when a step or the commit failed; a
\* call that began none steps, commits and rolls back nothing.
C9_TransactionClosed ==
    [][last'.op = "migrateRows"
         => LET log == last'.log
                begun == \E k \in DOMAIN log : log[k].e = "begin" /\ log[k].ok
                stepped == ~Failed(log, Steps)
            IN  /\ ~db'.inTransaction
                /\ Cardinality({k \in DOMAIN log : log[k].e = "begin"}) <= 1
                /\ begun => /\ Ran(log, {"commit"}) = stepped
                            /\ Ran(log, {"rollback"})
                                 = (~stepped \/ Failed(log, {"commit"}))
                /\ ~begun => ~Ran(log, {"commit", "rollback"} \cup Steps)
                /\ Ran(log, {"rollback"})
                     => /\ db'.sourceRows = db.sourceRows
                        /\ db'.destRows = db.destRows
                /\ last'.ok => (~begun \/ ~Ran(log, {"rollback"}))]_vars

\* C9 witness: the delete step failed after the migrate step had copied a row,
\* and the call has returned with the transaction rolled back
C9_RolledBackWitness ==
    /\ MigrateReturned("A") /\ ~last.ok
    /\ Failed(last.log, {"stepDelete"}) /\ Ran(last.log, {"rollback"})
    /\ ~db.inTransaction
    /\ db.sourceRows["p1"] = 1..MaxRows /\ db.destRows["tA"] = {}

\* C10: a log event calls each name whose latest registration has a callback
\* once, with that callback, and calls no name whose latest registration is
\* empty or that was never registered.
C10_RegisteredFire ==
    hub.posted =>
      \A name \in Names :
        LET fired == {k \in DOMAIN hub.calls : hub.calls[k].name = name}
        IN  IF hub.latest[name] # nullptr
            THEN /\ Cardinality(fired) = 1
                 /\ \A k \in fired : hub.calls[k].callback = hub.latest[name]
            ELSE fired = {}

\* C10 witness: an event after "a" was unregistered and "b" registered again
\* has called "b" alone
C10_ReplacedWitness ==
    /\ hub.posted
    /\ hub.status["a"] = "removed" /\ hub.status["b"] = "replaced"
    /\ Len(hub.calls) = 1 /\ hub.calls[1].name = "b"

\* the valid samples of the ring, and the total of one of their fields
ValidSamples ==
    {i \in 1..numberOfSamples :
       handle.m_samples[i].within > 0 /\ handle.m_samples[i].whole > 0}

RECURSIVE Total(_, _)
Total(S, field) ==
    IF S = {} THEN 0
    ELSE LET i == CHOOSE i \in S : TRUE
         IN  handle.m_samples[i][field] + Total(S \ {i}, field)

Calculated == last.op = "calculateTimeIntervalWithinTransaction"

InitializeBudget == [num |-> MigrateMaxInitializeDuration, den |-> 1]

\* C11: for every ring, the budget is MigrateMaxInitializeDuration or a b with
\* 0 < b <= MigrateMaxExpectingDuration that is MigrateMaxExpectingDuration
\* times the total within over the total whole of the valid samples; with
\* no valid sample it is MigrateMaxInitializeDuration.
C11_BudgetInRange ==
    Calculated =>
      /\ \/ last.budget = InitializeBudget
         \/ /\ last.budget.den = Total(ValidSamples, "whole")
            /\ last.budget.num
                 = MigrateMaxExpectingDuration * Total(ValidSamples, "within")
            /\ 0 < last.budget.num /\ 0 < last.budget.den
            /\ last.budget.num <= MigrateMaxExpectingDuration * last.budget.den
      /\ ValidSamples = {} => last.budget = InitializeBudget

\* C11 witness: a budget strictly between 0 and MigrateMaxExpectingDuration
\* calculated from a ring whose samples are all valid
C11_QuotientWitness ==
    /\ Calculated
    /\ ValidSamples = 1..numberOfSamples
    /\ last.budget.den > 1
    /\ last.budget.num < MigrateMaxExpectingDuration * last.budget.den

\* C12: no attach and no detach statement is executed while a transaction is
\* open or while the migrate or the delete statement is prepared.
C12_AttachWhenIdle ==
    \A k \in DOMAIN last.log :
      last.log[k].e \in Attaching => ~last.log[k].prepared /\ ~last.log[k].open

\* C13: at every return from an operation of the handle the migrate statement
\* is prepared if and only if the delete statement is.
C13_PreparedAsPair ==
    (handle.m_migrateStatement # Unprepared)
      <=> (handle.m_removeMigratedStatement # Unprepared)

\* C14: when m_migratingInfo is an info I, the attached schema is the schema
\* of I's source database, and each of the two statements is unprepared or
\* prepared from I.
C14_MigratingInfoAttached ==
    \A I \in Infos :
      handle.m_migratingInfo = I
        => /\ handle.m_attached = getSchemaForSourceDatabase(I)
           /\ handle.m_migrateStatement \in {Unprepared, I}
           /\ handle.m_removeMigratedStatement \in {Unprepared, I}

\* C14 witness: A is the migrating info, its schema attached and both
\* statements prepared from it, after B had been migrated on the same handle
C14_SwitchedWitness ==
    /\ handle.m_migratingInfo = "A" /\ handle.m_attached = "s1"
    /\ handle.m_migrateStatement = "A" /\ handle.m_removeMigratedStatement = "A"
    /\ "B" \in answered

\* C15: every pair migrateRows writes into the ring has whole > within > 0,
\* whatever the clock read at the end of the body and after the commit.
C15_NoDegenerateSample ==
    [][(MigrateReturned(Driven)' /\ handle'.m_samplePointing # handle.m_samplePointing)
         => LET sample == handle'.m_samples[handle.m_samplePointing + 1]
            IN  sample.whole > sample.within /\ sample.within > 0]_vars

DropReturned == last'.op = "dropSourceTable"

\* C16 as stated: dropSourceTable(info) returns with m_migratingInfo equal to
\* info, whether the drop succeeded, the statement failed, or the reAttach
\* failed.
C16_InfoSetRegardless ==
    [][DropReturned => handle'.m_migratingInfo = last'.info]_vars

\* C16, amended: dropSourceTable(info) returns with m_migratingInfo equal to
\* info when its reAttach succeeded, whether the drop statement then succeeded
\* or failed, and with m_migratingInfo cleared when the detach or the attach of
\* its reAttach failed.
C16_InfoSetAfterReAttach ==
    [][DropReturned
         => handle'.m_migratingInfo
              = IF Failed(last'.log, Attaching) THEN nullptr ELSE last'.info]_vars

\* C16 witness: the drop statement has failed and the info is the migrating
\* info
C16_DropFailedWitness ==
    /\ last.op = "dropSourceTable" /\ ~last.ok
    /\ Failed(last.log, {"drop"})
    /\ handle.m_migratingInfo = last.info

\* C17: every reAttach, whether it executes nothing, detaches and attaches,
\* or fails in its detach or in its attach, returns with m_migratingInfo
\* cleared and both statements unprepared.
C17_ReAttachClears ==
    last.op = "reAttach"
      => /\ handle.m_migratingInfo = nullptr
         /\ handle.m_migrateStatement = Unprepared
         /\ handle.m_removeMigratedStatement = Unprepared

\* C17 witness: a reAttach called with the statements prepared has failed in
\* its attach
C17_FailedAttachWitness ==
    /\ last.op = "reAttach" /\ ~last.ok
    /\ Failed(last.log, {"attach"})
    /\ last.log[1].prepared
    /\ handle.m_migrateStatement = Unprepared

\* C18: within one migrateRows the delete statement is stepped right after a
\* migrate step that succeeded with changes, and after nothing else; and every
\* such migrate step is followed by one step of the delete statement.
C18_DeleteFollowsMigrate ==
    last.op = "migrateRows" =>
      \A k \in DOMAIN last.log :
        /\ last.log[k].e = "stepDelete"
             => /\ k > 1
                /\ last.log[k - 1].e = "stepMigrate"
                /\ last.log[k - 1].ok
                /\ last.log[k - 1].changes # 0
        /\ (last.log[k].e = "stepMigrate" /\ last.log[k].ok /\ last.log[k].changes # 0)
             => /\ k < Len(last.log)
                /\ last.log[k + 1].e = "stepDelete"

\* C18 witness: one call has moved every row of a full source, a delete step
\* for each, and then taken the migrate step of no changes
C18_PairedStepsWitness ==
    /\ MigrateReturned(Driven) /\ last.ok /\ last.done
    /\ Cardinality({k \in DOMAIN last.log : last.log[k].e = "stepDelete"}) = MaxRows
    /\ Cardinality({k \in DOMAIN last.log : last.log[k].e = "stepMigrate"}) = MaxRows + 1

\* the calls a walk of map m makes over its first upto names
Observers(map, m, upto) ==
    LET names == SelectSeq(SubSeq(NameOrder, 1, upto), LAMBDA n : Invokes(map, m, n))
    IN  [k \in 1..Len(names) |-> [name |-> names[k], callback |-> m[names[k]]]]

\* C19: a thread registering an observer holds m_lock alone from before its
\* store until its guard ends; a thread dispatching holds it shared with no
\* exclusive holder, the map it walks stays what it was when the lock was
\* acquired, and the calls it has made are those of the observers that were in
\* the map at that moment.
C19_LockedWalk ==
    \A t \in Threads :
      LET my == hub.thread[t]
      IN  /\ my.pc \in {"set", "stored"}
               => hub.m_lock = [exclusive |-> {t}, shared |-> {}]
          /\ my.pc = "post"
               => /\ t \in hub.m_lock.shared
                  /\ hub.m_lock.exclusive = {}
                  /\ hub[my.map] = my.acquired
                  /\ my.calls = Observers(my.map, my.acquired, my.at - 1)

\* C19 witness: two dispatches hold the lock at once, one of them at the end
\* of a walk that called both observers of its map
C19_OverlapWitness ==
    \E t, u \in Threads :
      /\ t # u
      /\ hub.thread[u].pc = "post"
      /\ Walked(t) /\ Len(hub.thread[t].calls) = Len(NameOrder)
      /\ {t, u} \subseteq hub.m_lock.shared

\* ---------------------------------------------------------------- C20
SourceOf(d) == d.sourceRows[getSourceDatabase(Driven)]

DestOf(d) == d.destRows[getTable(Driven)]

\* C20: row conservation. Every migrateRows call, one that failed on a migrate
\* step, a delete step or the commit and was rolled back included, leaves each
\* row of the source table in exactly one of the source and the destination:
\* the rows of the two together are the rows before the call, no row is in
\* both, the rows that left the source are in the destination, and a call that
\* failed moved nothing.
C20_RowsConserved ==
    [][/\ SourceOf(db') \cup DestOf(db') = SourceOf(db) \cup DestOf(db)
       /\ SourceOf(db') \cap DestOf(db') = {}
       /\ SourceOf(db) \ SourceOf(db') \subseteq DestOf(db') \ DestOf(db)
       /\ ~last'.ok => SourceOf(db') = SourceOf(db) /\ DestOf(db') = DestOf(db)]_vars

\* a call whose delete step failed after its migrate step had copied the row
\* was rolled back, a row of an earlier call in the destination and the others
\* in the source
C20_RolledBackWitness ==
    /\ last.op = "migrateRows" /\ ~last.ok
    /\ \E k \in DOMAIN last.log :
          /\ last.log[k].e = "stepDelete" /\ ~last.log[k].ok
          /\ k > 1 /\ last.log[k - 1].e = "stepMigrate"
          /\ last.log[k - 1].ok /\ last.log[k - 1].changes = 1
    /\ DestOf(db) # {} /\ SourceOf(db) # {}
    /\ SourceOf(db) \cap DestOf(db) = {}
    /\ ~db.inTransaction
=============================================================================
